---- MODULE Spec2Model ----
(***************************************************************************)
(* A model of src/CSP.py: the constraint store (add_variable,              *)
(* add_constraint_one_way, add_all_different_constraint), AC-3             *)
(* (inference / revise) and the recursive backtracking search, which is    *)
(* unfolded here into an explicit stack of backtrack frames.               *)
(*                                                                         *)
(* Variable names are Python strings; they are modelled as sequences of    *)
(* one-character strings so that the substring test of line 171            *)
(* ("j not in n[0]") can be computed.  Python 2 dictionaries iterate in    *)
(* hash-slot order; that order is an input of the search ("order"), every  *)
(* dictionary iterating its keys in the order induced by it.               *)
(***************************************************************************)
EXTENDS Integers, Sequences, FiniteSets, TLC

VARIABLES
    variables,    \* self.variables: list of names, in registration order
    domains,      \* self.domains: name -> list of legal values
    constraints,  \* self.constraints: name -> (name -> set of legal pairs)
    calls,        \* history: number of constraint-registration calls so far
    groups,       \* history: groups passed to add_all_different_constraint
    filters,      \* history: arc -> filter functions applied since it exists
    order,        \* key iteration order of the dictionaries during search
    pc,           \* position of the program
    assignment,   \* working domain set of the running inference/backtrack
    queue,        \* arc queue of the running inference
    infres,       \* value returned by the last inference run
    stack,        \* frames of the backtrack calls that are in their loop
    ret           \* value returned by the last backtrack call

store == <<variables, domains, constraints>>
history == <<calls, groups, filters>>
vars == <<variables, domains, constraints, calls, groups, filters, order, pc,
          assignment, queue, infres, stack, ret>>

-----------------------------------------------------------------------------
(* Bounds and input sets *)

\* constraint-registration calls before a search (Spec, SpecAllDiff)
MaxCalls == 2
\* constraint-registration calls of the store-only specifications
MaxStoreCalls == 2
\* add_variable calls when names may be registered again (SpecDup)
MaxRegistrations == 3
\* constraint-registration calls before a search that runs to its end (SpecLive)
MaxLiveCalls == 1

nA == <<"a">>
nAB == <<"a", "b">>
nAC == <<"a", "c">>
nB == <<"b">>

NameSeq == <<nA, nAB, nAC, nB>>

Names3 == {nA, nAB, nB}
Names4 == {nA, nAB, nAC, nB}

Values == {1, 2}

RECURSIVE ListsOf(_)
\* the duplicate-free lists that enumerate the set S
ListsOf(S) ==
    IF S = {} THEN {<<>>}
    ELSE UNION {{<<x>> \o p : p \in ListsOf(S \ {x})} : x \in S}

\* duplicate-free non-empty lists over Values
DomainLists == UNION {ListsOf(S) : S \in (SUBSET Values) \ {{}}}

Preds == {"neq", "eq", "lt", "gt"}

\* a caller's filter_function, applied to one value pair
Holds(p, x, y) ==
    CASE p = "neq" -> x # y
      [] p = "eq" -> x = y
      [] p = "lt" -> x < y
      [] p = "gt" -> x > y

\* the same relation with its arguments swapped: lambda x, y: p(y, x)
Mirror(p) ==
    CASE p = "neq" -> "neq"
      [] p = "eq" -> "eq"
      [] p = "lt" -> "gt"
      [] p = "gt" -> "lt"

EmptyDict == [n \in {} |-> <<>>]

NoValue == [kind |-> "none", value |-> EmptyDict]
FalseValue == [kind |-> "False", value |-> EmptyDict]
KeyErrorValue == [kind |-> "KeyError", value |-> EmptyDict]
AssignmentValue(asg) == [kind |-> "assignment", value |-> asg]

-----------------------------------------------------------------------------
(* The constraint store *)

Init ==
    /\ variables = <<>>
    /\ domains = EmptyDict
    /\ constraints = EmptyDict
    /\ calls = 0
    /\ groups = {}
    /\ filters = EmptyDict
    /\ order = <<>>
    /\ pc = "build"
    /\ assignment = EmptyDict
    /\ queue = <<>>
    /\ infres = TRUE
    /\ stack = <<>>
    /\ ret = NoValue

\* d[k] = v on a dictionary
DictSet(d, k, v) == [x \in DOMAIN d \cup {k} |-> IF x = k THEN v ELSE d[x]]

search_vars == <<order, pc, assignment, queue, infres, stack, ret>>

add_variable(name, domain) ==
    /\ pc = "build"
    /\ variables' = Append(variables, name)
    /\ domains' = DictSet(domains, name, domain)
    /\ constraints' = DictSet(constraints, name, EmptyDict)
    /\ filters' = [arc \in {x \in DOMAIN filters : x[1] # name} |-> filters[arc]]
    /\ UNCHANGED <<calls, groups, search_vars>>

get_all_possible_pairs(xs, ys) ==
    {<<xs[p], ys[q]>> : p \in DOMAIN xs, q \in DOMAIN ys}

\* faulty variant of OneWay: a new filter_function replaces the legal pairs of the arc
\* instead of filtering them further
OneWay_replace(cons, doms, i, j, p) ==
    LET start == get_all_possible_pairs(doms[i], doms[j])
        legal == {vp \in start : Holds(p, vp[1], vp[2])}
    IN  DictSet(cons, i, DictSet(cons[i], j, legal))

\* self.constraints after add_constraint_one_way(i, j, filter_function),
\* starting from the constraint table cons
OneWay(cons, doms, i, j, p) ==
    LET start == IF j \in DOMAIN cons[i] THEN cons[i][j]
                 ELSE get_all_possible_pairs(doms[i], doms[j])
        legal == {vp \in start : Holds(p, vp[1], vp[2])}
    IN  DictSet(cons, i, DictSet(cons[i], j, legal))

\* the history of filter functions after one more was applied to arc (i, j)
Filtered(fs, i, j, p) ==
    DictSet(fs, <<i, j>>, IF <<i, j>> \in DOMAIN fs THEN fs[<<i, j>>] \cup {p} ELSE {p})

add_constraint_one_way(i, j, p) ==
    /\ pc = "build"
    /\ i \in DOMAIN constraints
    /\ j \in DOMAIN domains
    /\ constraints' = OneWay(constraints, domains, i, j, p)
    /\ filters' = Filtered(filters, i, j, p)
    /\ calls' = calls + 1
    /\ UNCHANGED <<variables, domains, groups, search_vars>>

\* faulty variant of ProductList: itertools.combinations(variables, 2), every pair of
\* positions once
ProductList_combinations(vs) ==
    SelectSeq([k \in 1..(Len(vs) * Len(vs)) |->
                  <<vs[((k - 1) \div Len(vs)) + 1], vs[((k - 1) % Len(vs)) + 1]>>],
              LAMBDA pr : \E m, n \in DOMAIN vs : m < n /\ pr = <<vs[m], vs[n]>>)

\* itertools.product(variables, variables), as a list
ProductList(vs) ==
    [k \in 1..(Len(vs) * Len(vs)) |->
        <<vs[((k - 1) \div Len(vs)) + 1], vs[((k - 1) % Len(vs)) + 1]>>]

RECURSIVE AllDifferentFrom(_, _, _, _)
\* the loop of add_all_different_constraint from the k-th pair on
AllDifferentFrom(cons, doms, pairs, k) ==
    IF k > Len(pairs) THEN cons
    ELSE LET i == pairs[k][1]
             j == pairs[k][2]
         IN  IF i # j
             THEN AllDifferentFrom(OneWay(cons, doms, i, j, "neq"), doms, pairs, k + 1)
             ELSE AllDifferentFrom(cons, doms, pairs, k + 1)

RECURSIVE AllDifferentFilters(_, _, _)
\* the history of filter functions over the same loop
AllDifferentFilters(fs, pairs, k) ==
    IF k > Len(pairs) THEN fs
    ELSE IF pairs[k][1] # pairs[k][2]
         THEN AllDifferentFilters(Filtered(fs, pairs[k][1], pairs[k][2], "neq"), pairs, k + 1)
         ELSE AllDifferentFilters(fs, pairs, k + 1)

add_all_different_constraint(vs) ==
    /\ pc = "build"
    /\ \A k \in DOMAIN vs : vs[k] \in DOMAIN constraints
    /\ constraints' = AllDifferentFrom(constraints, domains, ProductList(vs), 1)
    /\ filters' = AllDifferentFilters(filters, ProductList(vs), 1)
    /\ groups' = groups \cup {vs}
    /\ calls' = calls + 1
    /\ UNCHANGED <<variables, domains, search_vars>>

\* the keys of a dictionary with key set S, in iteration order
KeysInOrder(ord, S) == SelectSeq(ord, LAMBDA k : k \in S)

RECURSIVE Flatten(_)
Flatten(ss) == IF ss = <<>> THEN <<>> ELSE Head(ss) \o Flatten(Tail(ss))

get_all_arcs(cons, ord) ==
    LET outer == KeysInOrder(ord, DOMAIN cons)
    IN  Flatten([k \in DOMAIN outer |->
            LET i == outer[k]
                inner == KeysInOrder(ord, DOMAIN cons[i])
            IN  [m \in DOMAIN inner |-> <<i, inner[m]>>]])

get_all_neighboring_arcs(cons, ord, var) ==
    LET inner == KeysInOrder(ord, DOMAIN cons[var])
    IN  [m \in DOMAIN inner |-> <<inner[m], var>>]

-----------------------------------------------------------------------------
(* AC-3 *)

\* list.remove(x): drops the first occurrence of x
RECURSIVE Remove(_, _)
Remove(xs, x) ==
    IF xs = <<>> THEN <<>>
    ELSE IF Head(xs) = x THEN Tail(xs)
    ELSE <<Head(xs)>> \o Remove(Tail(xs), x)

RECURSIVE ReviseFrom(_, _, _, _, _, _)
\* the for-loop of revise over assignment[i]; the list iterator is at
\* position k of the list, which the loop body shortens while it runs
ReviseFrom(asg, cons, i, j, k, revised) ==
    IF k > Len(asg[i]) THEN [assignment |-> asg, revised |-> revised]
    ELSE LET x == asg[i][k]
             satisfied == \E q \in DOMAIN asg[j] : <<x, asg[j][q]>> \in cons
         IN  IF satisfied
             THEN ReviseFrom(asg, cons, i, j, k + 1, revised)
             ELSE ReviseFrom([asg EXCEPT ![i] = Remove(asg[i], x)],
                             cons, i, j, k + 1, TRUE)

\* faulty variant of revise: the legal pairs are looked up under the mirror arc
\* self.constraints[j][i]
revise_mirror(asg, cons, i, j) == ReviseFrom(asg, cons[j][i], i, j, 1, FALSE)

\* faulty variant of revise: the loop runs over the static domain self.domains[i]
\* instead of assignment[i]
revise_static(asg, cons, i, j) ==
    ReviseFrom([asg EXCEPT ![i] = domains[i]], cons[i][j], i, j, 1, FALSE)

revise(asg, cons, i, j) == ReviseFrom(asg, cons[i][j], i, j, 1, FALSE)

\* Python's "j in n" on two strings
IsSubstring(j, n) ==
    \E s \in 0..(Len(n) - Len(j)) : SubSeq(n, s + 1, s + Len(j)) = j

\* the arcs inference appends to the queue after revise(i, j) shrank i
Requeued(cons, ord, i, j) ==
    LET neighbors == get_all_neighboring_arcs(cons, ord, i)
        kept == SelectSeq(neighbors, LAMBDA n : ~IsSubstring(j, n[1]))
    IN  [m \in DOMAIN kept |-> <<kept[m][1], i>>]

backtracking_search(ord) ==
    /\ pc = "build"
    /\ order' = ord
    /\ assignment' = domains
    /\ queue' = get_all_arcs(constraints, ord)
    /\ pc' = "inference"
    /\ UNCHANGED <<store, history, infres, stack, ret>>

\* faulty variant of inference_step: an emptied working domain does not end the run
\* (the "return False" is missing)
inference_step_drain ==
    /\ pc = "inference"
    /\ queue # <<>>
    /\ LET i == Head(queue)[1]
           j == Head(queue)[2]
           r == revise(assignment, constraints, i, j)
       IN  /\ assignment' = r.assignment
           /\ queue' = IF r.revised
                       THEN Tail(queue) \o Requeued(constraints, order, i, j)
                       ELSE Tail(queue)
    /\ UNCHANGED <<store, history, order, infres, pc, stack, ret>>

\* faulty variant of inference_step: assignment is self.domains itself (no deepcopy),
\* so that what revise removes is removed from the static domains
inference_step_alias ==
    /\ pc = "inference"
    /\ queue # <<>>
    /\ LET i == Head(queue)[1]
           j == Head(queue)[2]
           r == revise(assignment, constraints, i, j)
       IN  /\ assignment' = r.assignment
           /\ domains' = r.assignment
           /\ IF r.revised /\ Len(r.assignment[i]) = 0
              THEN /\ infres' = FALSE
                   /\ pc' = "inference_ret"
                   /\ queue' = Tail(queue)
              ELSE /\ queue' = IF r.revised
                               THEN Tail(queue) \o Requeued(constraints, order, i, j)
                               ELSE Tail(queue)
                   /\ UNCHANGED <<infres, pc>>
    /\ UNCHANGED <<variables, constraints, history, order, stack, ret>>

\* one iteration of the while-loop of inference
inference_step ==
    /\ pc = "inference"
    /\ queue # <<>>
    /\ LET i == Head(queue)[1]
           j == Head(queue)[2]
       IN  IF j \notin DOMAIN constraints[i]
           THEN \* self.constraints[i][j] raises KeyError
                /\ pc' = "done"
                /\ ret' = KeyErrorValue
                /\ queue' = Tail(queue)
                /\ UNCHANGED <<assignment, infres>>
           ELSE LET r == revise(assignment, constraints, i, j)
                IN  /\ assignment' = r.assignment
                    /\ ret' = ret
                    /\ IF r.revised /\ Len(r.assignment[i]) = 0
                       THEN /\ infres' = FALSE
                            /\ pc' = "inference_ret"
                            /\ queue' = Tail(queue)
                       ELSE /\ queue' = IF r.revised
                                        THEN Tail(queue) \o Requeued(constraints, order, i, j)
                                        ELSE Tail(queue)
                            /\ UNCHANGED <<infres, pc>>
    /\ UNCHANGED <<store, history, order, stack>>

\* the while-loop of inference ends: return True
inference_return ==
    /\ pc = "inference"
    /\ queue = <<>>
    /\ infres' = TRUE
    /\ pc' = "inference_ret"
    /\ UNCHANGED <<store, history, order, assignment, queue, stack, ret>>

-----------------------------------------------------------------------------
(* Backtracking search *)

\* the caller of inference goes on: backtracking_search ignores the value
\* and calls backtrack; the loop of backtrack recurses or tries the next value
after_inference ==
    /\ pc = "inference_ret"
    /\ IF stack = <<>> \/ infres
       THEN /\ pc' = "backtrack"
            /\ stack' = stack
       ELSE /\ pc' = "loop"
            /\ stack' = [stack EXCEPT ![Len(stack)].idx = @ + 1]
    /\ UNCHANGED <<store, history, order, assignment, queue, infres, ret>>

complete(asg) == \A x \in DOMAIN asg : Len(asg[x]) = 1

\* the keys of assignment whose list has more than one value, in order
Undecided(asg, ord) ==
    SelectSeq(KeysInOrder(ord, DOMAIN asg), LAMBDA k : Len(asg[k]) > 1)

\* a call of backtrack(assignment), up to its for-loop
backtrack_enter ==
    /\ pc = "backtrack"
    /\ IF complete(assignment)
       THEN /\ ret' = AssignmentValue(assignment)
            /\ pc' = "return"
            /\ stack' = stack
       ELSE IF Undecided(assignment, order) = <<>>
       THEN \* select_unassigned_variable returns None: assignment[None]
            /\ ret' = KeyErrorValue
            /\ pc' = "done"
            /\ stack' = stack
       ELSE /\ stack' = Append(stack, [assignment |-> assignment,
                                       unassigned |-> Head(Undecided(assignment, order)),
                                       idx |-> 1])
            /\ pc' = "loop"
            /\ ret' = ret
    /\ UNCHANGED <<store, history, order, assignment, queue, infres>>

\* faulty variant of backtrack_loop: the branch does not cut the selected variable
\* down to the value (domain_copy[unassigned] = [value] is missing)
backtrack_loop_no_narrow ==
    /\ pc = "loop"
    /\ LET f == stack[Len(stack)]
       IN  IF f.idx <= Len(f.assignment[f.unassigned])
           THEN /\ assignment' = f.assignment
                /\ queue' = get_all_arcs(constraints, order)
                /\ pc' = "inference"
                /\ UNCHANGED <<stack, ret>>
           ELSE /\ ret' = FalseValue
                /\ stack' = SubSeq(stack, 1, Len(stack) - 1)
                /\ pc' = "return"
                /\ UNCHANGED <<assignment, queue>>
    /\ UNCHANGED <<store, history, order, infres>>

\* faulty variant of backtrack_loop: domain_copy is assignment itself (no deepcopy),
\* so that the branch writes into the working domains the call received
backtrack_loop_no_copy ==
    /\ pc = "loop"
    /\ LET f == stack[Len(stack)]
       IN  IF f.idx <= Len(f.assignment[f.unassigned])
           THEN /\ assignment' = [f.assignment EXCEPT
                                    ![f.unassigned] = <<f.assignment[f.unassigned][f.idx]>>]
                /\ stack' = [stack EXCEPT ![Len(stack)].assignment = assignment']
                /\ queue' = get_all_arcs(constraints, order)
                /\ pc' = "inference"
                /\ UNCHANGED ret
           ELSE /\ ret' = FalseValue
                /\ stack' = SubSeq(stack, 1, Len(stack) - 1)
                /\ pc' = "return"
                /\ UNCHANGED <<assignment, queue>>
    /\ UNCHANGED <<store, history, order, infres>>

\* faulty variant of backtrack_loop: the loop gives up after the first value
backtrack_loop_first_only ==
    /\ pc = "loop"
    /\ LET f == stack[Len(stack)]
       IN  IF f.idx <= 1
           THEN /\ assignment' = [f.assignment EXCEPT
                                    ![f.unassigned] = <<f.assignment[f.unassigned][f.idx]>>]
                /\ queue' = get_all_arcs(constraints, order)
                /\ pc' = "inference"
                /\ UNCHANGED <<stack, ret>>
           ELSE /\ ret' = FalseValue
                /\ stack' = SubSeq(stack, 1, Len(stack) - 1)
                /\ pc' = "return"
                /\ UNCHANGED <<assignment, queue>>
    /\ UNCHANGED <<store, history, order, infres>>

\* the for-loop of the innermost backtrack call: next value, or return False
backtrack_loop ==
    /\ pc = "loop"
    /\ LET f == stack[Len(stack)]
       IN  IF f.idx <= Len(f.assignment[f.unassigned])
           THEN /\ assignment' = [f.assignment EXCEPT
                                    ![f.unassigned] = <<f.assignment[f.unassigned][f.idx]>>]
                /\ queue' = get_all_arcs(constraints, order)
                /\ pc' = "inference"
                /\ UNCHANGED <<stack, ret>>
           ELSE /\ ret' = FalseValue
                /\ stack' = SubSeq(stack, 1, Len(stack) - 1)
                /\ pc' = "return"
                /\ UNCHANGED <<assignment, queue>>
    /\ UNCHANGED <<store, history, order, infres>>

\* Python truth value of what backtrack returned
Truthy(r) == r.kind = "assignment" /\ DOMAIN r.value # {}

\* faulty variant of backtrack_return: the loop goes on to the next value after a
\* branch has yielded a solution ("return result" is missing)
backtrack_return_keep_trying ==
    /\ pc = "return"
    /\ IF stack = <<>>
       THEN /\ pc' = "done"
            /\ stack' = stack
       ELSE /\ pc' = "loop"
            /\ stack' = [stack EXCEPT ![Len(stack)].idx = @ + 1]
    /\ UNCHANGED <<store, history, order, assignment, queue, infres, ret>>

\* a backtrack call has returned to its caller
backtrack_return ==
    /\ pc = "return"
    /\ IF stack = <<>>
       THEN /\ pc' = "done"
            /\ stack' = stack
       ELSE IF Truthy(ret)
       THEN /\ pc' = "return"
            /\ stack' = SubSeq(stack, 1, Len(stack) - 1)
       ELSE /\ pc' = "loop"
            /\ stack' = [stack EXCEPT ![Len(stack)].idx = @ + 1]
    /\ UNCHANGED <<store, history, order, assignment, queue, infres, ret>>

Search ==
    \/ inference_step
    \/ inference_return
    \/ after_inference
    \/ backtrack_enter
    \/ backtrack_loop
    \/ backtrack_return

-----------------------------------------------------------------------------
(* Specifications *)

Registered == DOMAIN domains

\* the caller registers a relation between i and j in both directions
add_constraint(i, j, p) ==
    /\ pc = "build"
    /\ constraints' = OneWay(OneWay(constraints, domains, i, j, p),
                             domains, j, i, Mirror(p))
    /\ filters' = Filtered(Filtered(filters, i, j, p), j, i, Mirror(p))
    /\ calls' = calls + 1
    /\ UNCHANGED <<variables, domains, groups, search_vars>>

\* position of a name in the order in which the caller registers names
Rank(name) == CHOOSE k \in 1..Len(NameSeq) : NameSeq[k] = name

\* the names the caller may register next: it registers names in the order
\* of NameSeq, leaving out any of them (the order of registration only shows
\* in self.variables, which no method reads; the iteration order of the
\* dictionaries is the input "order" of backtracking_search)
Fresh(S) == {n \in S : \A m \in Registered : Rank(m) < Rank(n)}

\* the group lists over the registered names of S, one per set of names
GroupLists(S) ==
    {KeysInOrder(NameSeq, G) : G \in {H \in SUBSET (S \cap Registered) : Cardinality(H) >= 2}}

\* Spec: up to three names, relations registered in both directions, search
Next ==
    \/ \E name \in Fresh(Names3), domain \in DomainLists :
          add_variable(name, domain)
    \/ \E i, j \in Registered, p \in Preds :
          i # j /\ calls < MaxCalls /\ add_constraint(i, j, p)
    \/ \E vs \in GroupLists(Names3) :
          Len(vs) = 3 /\ calls < MaxCalls /\ add_all_different_constraint(vs)
    \/ \E ord \in ListsOf(Registered) : backtracking_search(ord)
    \/ Search

Spec == Init /\ [][Next]_vars

\* SpecAllDiff: four names, all-different groups only, search
AllDiffDomains == {<<1>>, <<1, 2>>}

NextAllDiff ==
    \/ \E name \in Fresh(Names4), domain \in AllDiffDomains :
          add_variable(name, domain)
    \/ \E vs \in GroupLists(Names4) :
          calls < MaxCalls /\ add_all_different_constraint(vs)
    \/ \E ord \in ListsOf(Registered) : backtracking_search(ord)
    \/ Search

SpecAllDiff == Init /\ [][NextAllDiff]_vars

\* SpecStore: the registration operations alone, one arc at a time
NextStore ==
    \/ \E name \in Fresh(Names3), domain \in DomainLists :
          add_variable(name, domain)
    \/ \E i, j \in Registered, p \in Preds :
          i # j /\ calls < MaxStoreCalls /\ add_constraint_one_way(i, j, p)
    \/ \E vs \in GroupLists(Names3) :
          calls < MaxStoreCalls /\ add_all_different_constraint(vs)

SpecStore == Init /\ [][NextStore]_vars

\* SpecGroups: distinct names, then all-different groups in any list order
NextGroups ==
    \/ \E name \in Fresh(Names3), domain \in DomainLists :
          calls = 0 /\ add_variable(name, domain)
    \/ \E G \in SUBSET Registered : \E vs \in ListsOf(G) :
          Len(vs) >= 2 /\ calls < MaxStoreCalls /\ add_all_different_constraint(vs)

SpecGroups == Init /\ [][NextGroups]_vars

\* SpecDup: names may be registered again
NextDup ==
    \/ \E name \in Names3, domain \in DomainLists :
          Len(variables) < MaxRegistrations /\ add_variable(name, domain)
    \/ \E i, j \in Registered, p \in Preds :
          i # j /\ calls < MaxStoreCalls /\ add_constraint_one_way(i, j, p)
    \/ \E vs \in GroupLists(Names3) :
          calls < MaxStoreCalls /\ add_all_different_constraint(vs)

SpecDup == Init /\ [][NextDup]_vars

-----------------------------------------------------------------------------
(* Notions the properties are stated with *)

Range(xs) == {xs[k] : k \in DOMAIN xs}

Arcs == {<<i, j>> : i \in DOMAIN constraints, j \in Names4} \cap
        {arc \in Names4 \X Names4 : arc[2] \in DOMAIN constraints[arc[1]]}

\* the total assignments that take every value from its static domain and
\* satisfy every registered constraint
Solutions ==
    {s \in [Registered -> Values] :
        /\ \A v \in Registered : s[v] \in Range(domains[v])
        /\ \A arc \in Arcs : <<s[arc[1]], s[arc[2]]>> \in constraints[arc[1]][arc[2]]}

Satisfiable == Solutions # {}

\* every arc has its mirror, holding the swapped pairs
MirrorSymmetric ==
    \A arc \in Arcs :
        /\ <<arc[2], arc[1]>> \in Arcs
        /\ \A x \in Values, y \in Values :
              <<x, y>> \in constraints[arc[1]][arc[2]]
                  <=> <<y, x>> \in constraints[arc[2]][arc[1]]

Returned == pc = "done" /\ ret.kind = "assignment"

-----------------------------------------------------------------------------
(* C1 *)

\* C1 (soundness): whenever backtracking_search returns an assignment, the
\* values it gives to i and j are a legal pair of every registered arc (i, j).
C1_Soundness ==
    Returned =>
        \A arc \in Arcs :
            /\ Len(ret.value[arc[1]]) = 1
            /\ Len(ret.value[arc[2]]) = 1
            /\ <<ret.value[arc[1]][1], ret.value[arc[2]][1]>>
                   \in constraints[arc[1]][arc[2]]

-----------------------------------------------------------------------------
(* C2 *)

\* C2 (unsatisfiable result): on a store without a satisfying total
\* assignment, backtracking_search ends by returning False: it raises no
\* error and returns no assignment.
C2_UnsatisfiableReturnsFalse ==
    (pc = "done" /\ ~Satisfiable) => ret = FalseValue

-----------------------------------------------------------------------------
(* C3 *)

StaticDomainsNonEmpty == \A v \in Registered : domains[v] # <<>>

Decided(asg) ==
    /\ DOMAIN asg = Registered
    /\ \A v \in Registered : Len(asg[v]) = 1

\* C3 (completeness): on a store with mirror-symmetric constraints and
\* non-empty static domains that has a satisfying total assignment,
\* backtracking_search does not return False (nor end in an error): it
\* returns a mapping that gives every registered variable exactly one value.
C3_Completeness ==
    (pc = "done" /\ MirrorSymmetric /\ StaticDomainsNonEmpty /\ Satisfiable)
        => (ret.kind = "assignment" /\ Decided(ret.value))

\* a search on a satisfiable store of three constrained variables has
\* returned, and it had to take a value away from some domain
C3_Witness ==
    /\ pc = "done"
    /\ MirrorSymmetric /\ StaticDomainsNonEmpty /\ Satisfiable
    /\ Cardinality(Registered) = 3
    /\ Cardinality(Arcs) >= 4
    /\ ret.kind = "assignment"
    /\ \E v \in Registered : ret.value[v] # domains[v]

-----------------------------------------------------------------------------
(* C4 *)

\* C4 (all-different): an assignment returned by backtracking_search gives
\* pairwise different values to the variables of every group that was
\* registered with add_all_different_constraint.
C4_AllDifferent ==
    Returned =>
        \A g \in groups : \A m, n \in DOMAIN g :
            g[m] # g[n] => ret.value[g[m]] # ret.value[g[n]]

-----------------------------------------------------------------------------
(* C5 *)

\* every value left to i has a support in j, for every registered arc (i, j)
ArcConsistent(asg) ==
    \A arc \in Arcs :
        \A x \in Range(asg[arc[1]]) :
            \E y \in Range(asg[arc[2]]) : <<x, y>> \in constraints[arc[1]][arc[2]]

\* C5 (fixed point): when an inference run that was given all arcs returns
\* True, the working domain set is arc-consistent.
C5_ArcConsistentAfterInference ==
    (pc = "inference_ret" /\ infres) => ArcConsistent(assignment)

-----------------------------------------------------------------------------
(* C6 *)

RECURSIVE IsSubSequence(_, _)
\* xs is ys with some elements left out
IsSubSequence(xs, ys) ==
    IF xs = <<>> THEN TRUE
    ELSE IF ys = <<>> THEN FALSE
    ELSE IF Head(xs) = Head(ys) THEN IsSubSequence(Tail(xs), Tail(ys))
    ELSE IsSubSequence(xs, Tail(ys))

Within(asg, bsg) ==
    /\ DOMAIN asg = DOMAIN bsg
    /\ \A v \in DOMAIN asg : IsSubSequence(asg[v], bsg[v])

WorkingWithinStatic ==
    pc # "build" =>
        /\ Within(assignment, domains)
        /\ \A k \in DOMAIN stack : Within(stack[k].assignment, domains)

NoValueAdded ==
    /\ pc = "inference" => Within(assignment', assignment)
    /\ (pc = "loop" /\ pc' = "inference") =>
          LET f == stack[Len(stack)]
          IN  /\ Within(assignment', f.assignment)
              /\ Len(assignment'[f.unassigned]) = 1

\* C6 (shrink-only): during a search every working domain (the one being
\* propagated and the one of every backtrack call in progress) is a
\* sub-sequence of the static domain; no step of inference adds a value, and a
\* branch starts from the caller's working domains with the selected
\* variable cut down to one of its values.
C6_DomainShrinkOnly == [][WorkingWithinStatic' /\ NoValueAdded]_vars

\* a branch of a nested backtrack call is being propagated and has lost values
C6_Witness ==
    /\ pc = "inference"
    /\ Len(stack) >= 2
    /\ \E v \in Registered :
          Len(assignment[v]) < Len(stack[Len(stack)].assignment[v])

-----------------------------------------------------------------------------
(* C7 *)

\* C7 (read-only store): from the call of backtracking_search on, no step
\* changes self.variables, self.domains or self.constraints.
C7_StoreReadOnly == [][pc' # "build" => store' = store]_vars

\* the search is over and propagation has removed values from a working
\* domain, whose static domain still has them
C7_Witness ==
    /\ pc = "done"
    /\ \E v \in Registered : Len(assignment[v]) < Len(domains[v])

-----------------------------------------------------------------------------
(* C8 *)

\* C8 (conjunctive composition): the legal set stored for an arc (i, j) is
\* the set of pairs of domain(i) x domain(j) that pass every filter function
\* given for (i, j), whatever the order and the repetitions of the calls, and
\* an arc exists only if add_constraint_one_way was called for it: a call
\* for (i, j) neither creates nor changes (j, i).
C8_ConjunctiveComposition ==
    /\ DOMAIN filters = Arcs
    /\ \A arc \in Arcs :
          constraints[arc[1]][arc[2]] =
              {vp \in get_all_possible_pairs(domains[arc[1]], domains[arc[2]]) :
                  \A p \in filters[arc] : Holds(p, vp[1], vp[2])}

\* two different filter functions were given for an arc whose mirror was
\* never registered, and some pair passes both
C8_Witness ==
    \E arc \in Arcs :
        /\ Cardinality(filters[arc]) = 2
        /\ <<arc[2], arc[1]>> \notin Arcs
        /\ constraints[arc[1]][arc[2]] # {}

-----------------------------------------------------------------------------
(* C9 *)

\* C9 (symmetry under the helper): after add_variable calls with distinct
\* names and then add_all_different_constraint calls, every arc has its
\* mirror with the swapped pairs, and no arc joins a variable to itself.
C9_SymmetricAfterAllDifferent ==
    /\ MirrorSymmetric
    /\ \A arc \in Arcs : arc[1] # arc[2]

\* a group of three was registered: six arcs
C9_Witness ==
    /\ \E g \in groups : Len(g) = 3
    /\ Cardinality(Arcs) = 6
    /\ \E arc \in Arcs : Cardinality(constraints[arc[1]][arc[2]]) = 2

-----------------------------------------------------------------------------
(* C10 *)

\* C10 (duplicate registration is rejected): add_variable with a name that
\* is already registered leaves the variable list, the static domains and
\* the constraints as they were.
C10_DuplicateRejected ==
    [][(\E name \in Registered, domain \in DomainLists : add_variable(name, domain))
          => store' = store]_vars

-----------------------------------------------------------------------------
(* C11 *)

\* an inference step is about to pop an arc that revise can look up
Revising ==
    /\ pc = "inference"
    /\ queue # <<>>
    /\ Head(queue)[2] \in DOMAIN constraints[Head(queue)[1]]

\* the values of asg[i], in their order, that have a support in asg[j]
Supported(asg, i, j) ==
    SelectSeq(asg[i], LAMBDA x :
        \E y \in Range(asg[j]) : <<x, y>> \in constraints[i][j])

\* C11 (revise is exact): a revise(assignment, i, j) of inference leaves to i
\* exactly the values of its previous working domain that have a support in
\* assignment[j], in their previous order, and leaves every other working
\* domain as it was.
C11_ReviseExact ==
    [][Revising =>
          LET i == Head(queue)[1]
              j == Head(queue)[2]
          IN  /\ assignment'[i] = Supported(assignment, i, j)
              /\ \A v \in DOMAIN assignment \ {i} : assignment'[v] = assignment[v]]_vars

-----------------------------------------------------------------------------
(* C12 *)

\* the arcs at the end of the queue after the step that were not in it before
Appended == SubSeq(queue', Len(queue), Len(queue'))

\* C12 (requeue rule): when the revise of a popped arc (i, j) removes a
\* value from i without emptying it, the arcs (k, i) of all neighbors k of i
\* other than j are appended to the queue before the next pop, also when the
\* name of j is a substring of the name of k.
C12_RequeueRule ==
    [][(Revising /\ assignment' # assignment
            /\ assignment'[Head(queue)[1]] # <<>>) =>
          LET i == Head(queue)[1]
              j == Head(queue)[2]
          IN  /\ pc' = "inference"
              /\ Range(Appended) = {<<k, i>> : k \in DOMAIN constraints[i] \ {j}}]_vars

-----------------------------------------------------------------------------
(* C13 *)

\* C13 (neighboring arcs are the incoming arcs): whatever was registered,
\* get_all_neighboring_arcs(var) returns exactly the registered arcs
\* (k, var), so that each of them is an arc of get_all_arcs().
C13_NeighboringArcsIncoming ==
    \A var \in Registered : \A ord \in ListsOf(Registered) :
        /\ Range(get_all_neighboring_arcs(constraints, ord, var))
               = {arc \in Arcs : arc[2] = var}
        /\ Range(get_all_neighboring_arcs(constraints, ord, var))
               \subseteq Range(get_all_arcs(constraints, ord))

-----------------------------------------------------------------------------
(* C14 *)

\* C14 (variable selection succeeds): whenever backtrack goes on to
\* select_unassigned_variable (its assignment is not complete), the call
\* returns a registered variable whose working domain has more than one value.
C14_SelectionSucceeds ==
    (pc = "backtrack" /\ ~complete(assignment)) =>
        /\ Undecided(assignment, order) # <<>>
        /\ Head(Undecided(assignment, order)) \in Registered
        /\ Len(assignment[Head(Undecided(assignment, order))]) > 1

-----------------------------------------------------------------------------
(* C15 *)

\* SpecLive: the operations of Spec, where a search that has started goes on
\* running: the interpreter takes the next step of a call in progress
NextLive ==
    \/ \E name \in Fresh(Names3), domain \in DomainLists :
          add_variable(name, domain)
    \/ \E i, j \in Registered, p \in Preds :
          i # j /\ calls < MaxLiveCalls /\ add_constraint(i, j, p)
    \/ \E vs \in GroupLists(Names3) :
          Len(vs) = 3 /\ calls < MaxLiveCalls /\ add_all_different_constraint(vs)
    \/ \E ord \in ListsOf(Registered) : backtracking_search(ord)
    \/ Search

SpecLive == Init /\ [][NextLive]_vars /\ WF_vars(Search)

\* the number of decided variables of a working domain set
DecidedCount(asg) == Cardinality({v \in DOMAIN asg : Len(asg[v]) = 1})

\* along the backtrack calls in progress, every recursive call is given more
\* decided variables than its caller was given
RecursionDecides ==
    /\ \A k \in DOMAIN stack : k > 1 =>
          DecidedCount(stack[k - 1].assignment) < DecidedCount(stack[k].assignment)
    /\ (pc = "backtrack" /\ stack # <<>>) =>
          DecidedCount(stack[Len(stack)].assignment) < DecidedCount(assignment)

\* C15 (termination, bounded depth): a recursive backtrack call is given
\* strictly more decided variables than its caller, the recursive calls
\* nested in one another are never more than the variables, every inference
\* run comes to its end, and every call of backtracking_search comes to its
\* end (with the value it returns or, on the stores of C2, with the error
\* raised there).
C15_Termination ==
    /\ [](RecursionDecides /\ Len(stack) <= Cardinality(Registered))
    /\ (pc = "inference") ~> (pc # "inference")
    /\ (pc # "build") ~> (pc = "done")

\* as many backtrack calls as there are variables are in their loop, and the
\* innermost of them has got a solution from its recursive call
C15_Witness ==
    /\ Cardinality(Registered) = 3
    /\ Len(stack) = 3
    /\ pc = "return"
    /\ Truthy(ret)

-----------------------------------------------------------------------------
(* C16 *)

\* C16 (branch isolation): the working domain set a backtrack call received
\* stays as it was for as long as the call is in its loop, whatever its
\* branches propagate or recurse into, and the branch for each value starts
\* from it: all variables but the selected one have the domains of the entry.
C16_BranchIsolation ==
    [][/\ \A k \in DOMAIN stack : k \in DOMAIN stack' =>
             /\ stack'[k].assignment = stack[k].assignment
             /\ stack'[k].unassigned = stack[k].unassigned
       /\ (pc = "backtrack" /\ pc' = "loop") =>
             stack'[Len(stack')].assignment = assignment
       /\ (pc = "loop" /\ pc' = "inference") =>
             LET f == stack[Len(stack)]
             IN  \A v \in DOMAIN f.assignment \ {f.unassigned} :
                     assignment'[v] = f.assignment[v]]_vars

\* the branch for the second value is about to start, and the branch for the
\* first value has left other domains than the call had received
C16_Witness ==
    /\ pc = "loop"
    /\ stack[Len(stack)].idx = 2
    /\ \E v \in Registered \ {stack[Len(stack)].unassigned} :
          assignment[v] # stack[Len(stack)].assignment[v]

-----------------------------------------------------------------------------
(* C17 *)

\* C17 (short-circuit): inference returns False only right after a revise
\* that emptied the working domain of the revised variable, leaving the rest
\* of the queue as it is; no run goes on after a revise that emptied a
\* domain; and inference returns True only on an empty queue.
C17_ShortCircuit ==
    [][/\ (pc = "inference" /\ pc' = "inference_ret" /\ ~infres') =>
             /\ queue # <<>>
             /\ assignment[Head(queue)[1]] # <<>>
             /\ assignment'[Head(queue)[1]] = <<>>
             /\ queue' = Tail(queue)
       /\ (pc = "inference" /\ pc' = "inference") =>
             \A v \in DOMAIN assignment :
                 assignment[v] # <<>> => assignment'[v] # <<>>
       /\ (pc = "inference" /\ pc' = "inference_ret" /\ infres') =>
             /\ queue = <<>>
             /\ assignment' = assignment]_vars

\* the inference run of a branch has returned False with arcs left in the queue
C17_Witness ==
    /\ pc = "inference_ret"
    /\ ~infres
    /\ stack # <<>>
    /\ Len(queue) >= 2

-----------------------------------------------------------------------------
(* C18 *)

\* s takes every value from the working domain set asg
Compatible(s, asg) == \A v \in Registered : s[v] \in Range(asg[v])

\* C18 (propagation preserves solutions): a step of inference removes no
\* value of a satisfying total assignment that the working domains hold, and
\* as long as they hold one inference does not return False; the values
\* revise(assignment, i, j) removes are values without a support in
\* assignment[j]. (Stated for every store; the stores of Spec all have
\* mirror-symmetric constraints.)
C18_PropagationPreservesSolutions ==
    [][/\ (pc = "inference" /\ assignment' # assignment) =>
             \A s \in [Registered -> Values] :
                 (Compatible(s, assignment) /\ ~Compatible(s, assignment'))
                     => s \notin Solutions
       /\ (pc = "inference" /\ pc' = "inference_ret" /\ ~infres') =>
             \A s \in [Registered -> Values] :
                 Compatible(s, assignment) => s \notin Solutions
       /\ (Revising /\ assignment' # assignment) =>
             LET i == Head(queue)[1]
                 j == Head(queue)[2]
             IN  Range(assignment[i]) \ Range(assignment'[i])
                     \subseteq Range(assignment[i]) \ Range(Supported(assignment, i, j))]_vars

\* the inference run of a branch has returned True after removing values
\* from other variables than the selected one, and a solution is left
C18_Witness ==
    /\ pc = "inference_ret"
    /\ infres
    /\ stack # <<>>
    /\ Arcs # {}
    /\ MirrorSymmetric
    /\ \E s \in Solutions : Compatible(s, assignment)
    /\ \E v \in Registered \ {stack[Len(stack)].unassigned} :
          Len(assignment[v]) < Len(stack[Len(stack)].assignment[v])

-----------------------------------------------------------------------------
(* C19 *)

\* C19 (value order, first success): a backtrack call starts with the first
\* value of the selected variable; a branch takes the value at the position
\* the loop is at and runs inference on all arcs; the loop moves on by one
\* position, and only after the inference of the branch has returned False or
\* its recursive call has returned failure; a solution returned by a
\* recursive call is returned at once as it is.
C19_ValueOrderFirstSuccess ==
    [][/\ (pc = "backtrack" /\ pc' = "loop") => stack'[Len(stack')].idx = 1
       /\ (pc = "loop" /\ pc' = "inference") =>
             LET f == stack[Len(stack)]
             IN  /\ assignment'[f.unassigned] = <<f.assignment[f.unassigned][f.idx]>>
                 /\ Range(queue') = Arcs
                 /\ Len(queue') = Cardinality(Arcs)
       /\ \A k \in DOMAIN stack : (k \in DOMAIN stack' /\ stack'[k].idx # stack[k].idx) =>
             /\ k = Len(stack)
             /\ stack'[k].idx = stack[k].idx + 1
             /\ \/ pc = "inference_ret" /\ ~infres
                \/ pc = "return" /\ ~Truthy(ret)
       /\ (pc = "return" /\ Truthy(ret) /\ stack # <<>>) =>
             /\ pc' = "return"
             /\ ret' = ret
             /\ stack' = SubSeq(stack, 1, Len(stack) - 1)]_vars

\* a solution is on its way up through a call that had to go on to its second
\* value and a call whose first value has succeeded, the second left untried
C19_Witness ==
    /\ pc = "return"
    /\ Truthy(ret)
    /\ \E k \in DOMAIN stack : stack[k].idx = 2
    /\ \E k \in DOMAIN stack :
          /\ stack[k].idx = 1
          /\ Len(stack[k].assignment[stack[k].unassigned]) = 2

====
